---- MODULE Spec2Model ----
(***************************************************************************)
(* Model of ilp-compat-plugin (src/index.js): the adapter that wraps an    *)
(* event-driven LPI1 plugin and exposes the promise-based LPI2 interface.  *)
(*                                                                         *)
(* Strings are sequences of one-character strings, buffers are sequences   *)
(* of bytes (0..255), base64 text is a sequence of 6-bit digits (0..63)    *)
(* with 64 standing for the padding character '='.                         *)
(***************************************************************************)
EXTENDS Integers, Sequences, FiniteSets, TLC

(* ------------------------------ bounds -------------------------------- *)

\* number of sendTransfer calls made on the adapter in one behaviour
MaxCalls == 2

\* number of incoming_prepare events delivered in one behaviour
MaxIncoming == 2

\* longest destination address (in characters) given to sendTransfer
MaxAddrLen == 4

\* longest ledger prefix (in characters) of the wrapped plugin
MaxPrefixLen == 2

\* calls of the factory in one behaviour
MaxWraps == 2

\* length of the payloads sent on the round trip
MaxPayloadLen == 3

(* ------------------------------ values -------------------------------- *)

Chars == {"g", "a", "."}

Min(a, b) == IF a < b THEN a ELSE b

\* all strings over Chars of length at most n
StringsUpTo(n) == UNION {[1..k -> Chars] : k \in 0..n}

\* the JS value undefined, where an address is expected
Undefined == <<"undefined">>

\* correlation identifiers: uuid() gives one never given before, so the
\* k-th call of a behaviour is given identifier k; one more identifier is
\* never generated at all
Ids == 1..(MaxCalls + 1)

Fulfillments == {"f1", "f2"}
Reasons == {"r1", "r2"}

\* application payloads (buffers)
Payloads == {<<255>>, <<1, 2>>}

\* bytes with all bits clear, all bits set, and bits in either half of the
\* base64 digits they are split into
Bytes == {0, 255, 18}

\* all buffers over Bytes of length at most n
BuffersUpTo(n) == UNION {[1..k -> Bytes] : k \in 0..n}

TypeErrorNotAFunction == "TypeError: transfer.sendTransfer is not a function"
NoValidDestinationError == "Error: No valid destination: no connector and destination is not local"
RequestSendError == "error of request.sendTransfer"
PluginSendError == "error of oldPlugin.sendTransfer"

(* --------------------------- string helpers --------------------------- *)

\* String.prototype.substring(start, end), 0 <= start <= end
substring(s, start, end) ==
    SubSeq(s, Min(start, Len(s)) + 1, Min(end, Len(s)))

\* String.prototype.substring(start)
substringFrom(s, start) == SubSeq(s, Min(start, Len(s)) + 1, Len(s))

\* s.split('.')[0]
RECURSIVE splitFirst(_)
splitFirst(s) ==
    IF s = <<>> \/ Head(s) = "." THEN <<>>
    ELSE <<Head(s)>> \o splitFirst(Tail(s))

startsWith(prefix, subject) == substring(subject, 0, Len(prefix)) = prefix

(* ------------------------------- base64 ------------------------------- *)

Pad == 64

\* Buffer.prototype.toString('base64'): padded base64 text of a buffer
RECURSIVE toBase64(_)
toBase64(b) ==
    IF Len(b) = 0 THEN <<>>
    ELSE IF Len(b) = 1 THEN
        <<b[1] \div 4, (b[1] % 4) * 16, Pad, Pad>>
    ELSE IF Len(b) = 2 THEN
        <<b[1] \div 4, (b[1] % 4) * 16 + (b[2] \div 16), (b[2] % 16) * 4, Pad>>
    ELSE
        <<b[1] \div 4, (b[1] % 4) * 16 + (b[2] \div 16),
          (b[2] % 16) * 4 + (b[3] \div 64), b[3] % 64>>
        \o toBase64(SubSeq(b, 4, Len(b)))

\* the unpadded (base64url) text the packet codec hands out for a buffer
RECURSIVE stripPad(_)
stripPad(t) ==
    IF t = <<>> THEN <<>>
    ELSE IF Head(t) = Pad THEN stripPad(Tail(t))
    ELSE <<Head(t)>> \o stripPad(Tail(t))

toBase64Url(b) == stripPad(toBase64(b))

\* Buffer.from(text, 'base64'): padding is skipped, a trailing group of two
\* digits gives one byte, of three digits two bytes
RECURSIVE decodeDigits(_)
decodeDigits(d) ==
    IF Len(d) < 2 THEN <<>>
    ELSE IF Len(d) = 2 THEN
        <<d[1] * 4 + (d[2] \div 16)>>
    ELSE IF Len(d) = 3 THEN
        <<d[1] * 4 + (d[2] \div 16), (d[2] % 16) * 16 + (d[3] \div 4)>>
    ELSE
        <<d[1] * 4 + (d[2] \div 16), (d[2] % 16) * 16 + (d[3] \div 4),
          (d[3] % 4) * 64 + d[4]>>
        \o decodeDigits(SubSeq(d, 5, Len(d)))

fromBase64(t) == decodeDigits(stripPad(t))

(* ---------------------------- packet codec ---------------------------- *)

\* IlpPacket.serializeIlpPayment({account, amount, data}): the binary packet
\* holds the account, the amount and the bytes the base64 text stands for
serializeIlpPayment(p) ==
    [type |-> "payment", account |-> p.account, amount |-> p.amount,
     data |-> fromBase64(p.data)]

\* IlpPacket.deserializeIlpPayment(binary): data comes back as base64url text
deserializeIlpPayment(bin) ==
    [account |-> bin.account, amount |-> bin.amount, data |-> toBase64Url(bin.data)]

\* IlpPacket.serializeIlpFulfillment({data})
serializeIlpFulfillment(p) ==
    [type |-> "fulfillment", data |-> fromBase64(p.data)]

\* IlpPacket.deserializeIlpFulfillment(binary)
deserializeIlpFulfillment(bin) == [data |-> toBase64Url(bin.data)]

\* the fulfillment envelopes an outgoing_fulfill event may carry
FulfillEnvelopes == {[type |-> "fulfillment", data |-> d] : d \in Payloads}

\* the (fulfillment, payload) pairs of the model: each fulfillment goes with
\* a payload of its own
Outcomes ==
    {[fulfillment |-> "f1", data |-> <<255>>], [fulfillment |-> "f2", data |-> <<1, 2>>]}

(* ------------------------------- state -------------------------------- *)

VARIABLES
    prefix,                \* oldPlugin.getInfo().prefix
    connectors,            \* oldPlugin.getInfo().connectors
    oldPluginSend,         \* how oldPlugin.sendTransfer answers a call: "resolves" or "rejects"
    transfers,             \* this.transfers: identifier -> the call whose {resolve, reject} it holds, 0 = no entry
    calls,                 \* the sendTransfer calls made so far, in order
    promise,               \* promise[c]: the promise returned by call c
    terminalSeen,          \* terminalSeen[c]: a terminal event with the identifier of call c was delivered
    lastEvent,             \* the outgoing_* event delivered last and what its handler did
    oldSendTransferCalls,  \* records passed to oldPlugin.sendTransfer
    requestSendCalls,      \* records passed to the sendTransfer property of a request
    _transferHandler,      \* this._transferHandler
    lastCall,              \* the registration call made last, the handler in place
                           \* when registerTransferHandler was called, and how it ended
    incoming,              \* the incoming_prepare events delivered so far and how far each has got
    constructed,           \* constructed[x]: the adapters constructed over plugin x
    lastWrap,              \* the factory call made last and what it gave
    lastEmit               \* the oldPlugin.emit call made last and what it did

infoVars == <<prefix, connectors, oldPluginSend>>

outVars == <<transfers, calls, promise, terminalSeen, lastEvent,
             oldSendTransferCalls, requestSendCalls>>

inVars == <<_transferHandler, lastCall, incoming>>

apiVars == <<constructed, lastWrap, lastEmit>>

vars == <<infoVars, outVars, inVars, apiVars>>

(* ------------------------------ promises ------------------------------ *)

Pending == [state |-> "pending", fulfillment |-> "", data |-> <<>>, reason |-> ""]

Resolved(fulfillment, data) ==
    [state |-> "resolved", fulfillment |-> fulfillment, data |-> data, reason |-> ""]

Rejected(reason) ==
    [state |-> "rejected", fulfillment |-> "", data |-> <<>>, reason |-> reason]

\* a settle function that overwrites an outcome already reached
SettleOverwrite(p, outcome) == outcome

\* the resolve / reject functions of a promise: they act on a pending
\* promise and are ignored once it is settled
Settle(p, outcome) == IF p.state = "pending" THEN outcome ELSE p

(* ---------------------------- sendTransfer ---------------------------- *)

\* a delivery address that takes the whole remainder of the destination
resolveToWholeRemainder(pfx, conns, destination) ==
    IF startsWith(pfx, destination) THEN destination
    ELSE IF Len(conns) >= 1 THEN conns[1] ELSE Undefined

\* the local delivery address, `to`
resolveTo(pfx, conns, destination) ==
    IF startsWith(pfx, destination)
    THEN pfx \o splitFirst(substringFrom(destination, Len(pfx)))
    ELSE IF Len(conns) >= 1 THEN conns[1] ELSE Undefined

\* a condition that lets every address through
falsyNever(to) == FALSE

\* !to
falsy(to) == to = Undefined \/ to = <<>>

\* the executor calls transfer.sendTransfer(lpi1Transfer), a property of the
\* request and not of the wrapped plugin. What that property may be: absent,
\* as in every plain request (calling it is a TypeError), a function that
\* throws, a function returning a promise that resolves, or one returning a
\* promise that rejects
SendKinds == {"absent", "throws", "resolves", "rejects"}

\* the returned promise as the executor leaves it
executorOutcome(kind) ==
    CASE kind = "absent" -> Rejected(TypeErrorNotAFunction)
      [] kind = "throws" -> Rejected(RequestSendError)
      [] OTHER -> Pending

\* the send call as the executor leaves it
sendState(kind) ==
    CASE kind = "absent" -> "not a function"
      [] kind = "throws" -> "threw"
      [] kind = "resolves" -> "resolved"
      [] OTHER -> "rejecting"

\* an entry made under one fixed key, whatever the identifier
setEntryFixedKey(table, id, c) == [table EXCEPT ![1] = c]

\* this.transfers[id] = { resolve, reject }
setEntry(table, id, c) == [table EXCEPT ![id] = c]

\* an envelope built from the payload as it is, without base64 text
paymentEnvelopeRaw(transfer) ==
    serializeIlpPayment([account |-> transfer.destination,
                         amount |-> "0",
                         data |-> transfer.data])

\* the routing envelope of a request
paymentEnvelope(transfer) ==
    serializeIlpPayment([account |-> transfer.destination,
                         amount |-> "0",
                         data |-> toBase64(transfer.data)])

NoEnvelope == [type |-> "none", account |-> <<>>, amount |-> "", data |-> <<>>]

NoPromise == [state |-> "none"]

\* a throw in a function that is not async: the call itself throws and
\* returns no promise
syncThrow(err) == [thrown |-> err, promise |-> NoPromise]

\* a throw in the body of an async function: the call returns a promise
\* rejected with the error and throws nothing
asyncThrow(err) == [thrown |-> "", promise |-> Rejected(err)]

sendTransfer(transfer) ==
    /\ Len(calls) < MaxCalls
    /\ LET c == Len(calls) + 1
           id == c
           to == resolveTo(prefix, connectors, transfer.destination)
           ilp == paymentEnvelope(transfer)
           lpi1Transfer == [id |-> id, to |-> to, ledger |-> prefix, ilp |-> ilp]
           call == [id |-> id, destination |-> transfer.destination,
                    data |-> transfer.data, to |-> to, ilp |-> NoEnvelope,
                    thrown |-> "", send |-> "none"]
       IN IF falsy(to)
          THEN /\ calls' = Append(calls,
                       [call EXCEPT !.thrown = asyncThrow(NoValidDestinationError).thrown])
               /\ promise' = Append(promise, asyncThrow(NoValidDestinationError).promise)
               /\ UNCHANGED <<transfers, requestSendCalls>>
          ELSE /\ transfers' = setEntry(transfers, id, c)
               /\ calls' = Append(calls,
                       [call EXCEPT !.ilp = ilp,
                                    !.send = sendState(transfer.sendTransfer)])
               /\ requestSendCalls' =
                      IF transfer.sendTransfer = "absent" THEN requestSendCalls
                      ELSE Append(requestSendCalls, lpi1Transfer)
               /\ promise' = Append(promise, executorOutcome(transfer.sendTransfer))
    /\ terminalSeen' = Append(terminalSeen, FALSE)
    /\ UNCHANGED <<lastEvent, oldSendTransferCalls, infoVars, inVars, apiVars>>

\* .catch(reject): the promise returned by the send call has rejected
sendCatch(c) ==
    /\ c \in 1..Len(calls)
    /\ calls[c].send = "rejecting"
    /\ calls' = [calls EXCEPT ![c].send = "rejected"]
    /\ promise' = [promise EXCEPT ![c] = Settle(@, Rejected(RequestSendError))]
    /\ UNCHANGED <<transfers, terminalSeen, lastEvent, oldSendTransferCalls,
                   requestSendCalls, infoVars, inVars, apiVars>>

(* ------------------------ outgoing completion ------------------------- *)

\* a lookup that takes every identifier for a known one
truthyAlways(entry) == TRUE

\* this.transfers[transfer.id] taken as a condition
truthy(entry) == entry # 0

\* the handler returns at its guard
ignored(type, id) ==
    /\ lastEvent' = [type |-> type, id |-> id, handled |-> FALSE, threw |-> FALSE]
    /\ UNCHANGED <<transfers, calls, promise, terminalSeen>>

\* const { resolve } = this.transfers[transfer.id] where there is no entry
destructureThrows(type, id) ==
    /\ lastEvent' = [type |-> type, id |-> id, handled |-> FALSE, threw |-> TRUE]
    /\ UNCHANGED <<transfers, calls, promise, terminalSeen>>

\* an event that settles the promise of every call
settledAll(type, id, outcome) ==
    /\ promise' = [c \in 1..Len(promise) |-> Settle(promise[c], outcome)]
    /\ terminalSeen' = [terminalSeen EXCEPT ![transfers[id]] = TRUE]
    /\ lastEvent' = [type |-> type, id |-> id, handled |-> TRUE, threw |-> FALSE]
    /\ UNCHANGED <<transfers, calls>>

\* the entry of the identifier is called with an outcome
settled(type, id, outcome) ==
    LET c == transfers[id]
    IN /\ promise' = [promise EXCEPT ![c] = Settle(@, outcome)]
       /\ terminalSeen' = [terminalSeen EXCEPT ![c] = TRUE]
       /\ lastEvent' = [type |-> type, id |-> id, handled |-> TRUE, threw |-> FALSE]
       /\ UNCHANGED <<transfers, calls>>

_handleOutgoingFulfill(id, fulfillment, ilp) ==
    /\ IF ~truthy(transfers[id]) THEN ignored("outgoing_fulfill", id)
       ELSE IF transfers[id] = 0 THEN destructureThrows("outgoing_fulfill", id)
       ELSE LET data == deserializeIlpFulfillment(ilp).data
            IN settled("outgoing_fulfill", id, Resolved(fulfillment, fromBase64(data)))
    /\ UNCHANGED <<oldSendTransferCalls, requestSendCalls, infoVars, inVars, apiVars>>

_handleOutgoingReject(id, reason) ==
    /\ IF ~truthy(transfers[id]) THEN ignored("outgoing_reject", id)
       ELSE IF transfers[id] = 0 THEN destructureThrows("outgoing_reject", id)
       ELSE settled("outgoing_reject", id, Rejected(reason))
    /\ UNCHANGED <<oldSendTransferCalls, requestSendCalls, infoVars, inVars, apiVars>>

_handleOutgoingCancel(id, reason) ==
    /\ IF ~truthy(transfers[id]) THEN ignored("outgoing_cancel", id)
       ELSE IF transfers[id] = 0 THEN destructureThrows("outgoing_cancel", id)
       ELSE settled("outgoing_cancel", id, Rejected(reason))
    /\ UNCHANGED <<oldSendTransferCalls, requestSendCalls, infoVars, inVars, apiVars>>

(* ------------------------- handler registration ----------------------- *)

\* a condition that takes undefined and null for handlers
hasHandlerAlways(h) == TRUE

\* this._transferHandler taken as a condition: undefined and null are not
\* handlers
hasHandler(h) == h \notin {"undefined", "null"}

\* what registerTransferHandler may be given
Handlers == {"h1", "h2"}
HandlerArguments == Handlers \cup {"not a function"}

\* a registration that replaces the handler in place
registerTransferHandlerOverwrite(handler) ==
    /\ IF handler = "not a function"
       THEN /\ lastCall' = [op |-> "register", handler |-> handler,
                            before |-> _transferHandler,
                            result |-> "InvalidFieldsError"]
            /\ UNCHANGED _transferHandler
       ELSE /\ lastCall' = [op |-> "register", handler |-> handler,
                            before |-> _transferHandler, result |-> "ok"]
            /\ _transferHandler' = handler
    /\ UNCHANGED <<incoming, infoVars, outVars, apiVars>>

registerTransferHandler(handler) ==
    /\ IF hasHandler(_transferHandler)
       THEN /\ lastCall' = [op |-> "register", handler |-> handler,
                            before |-> _transferHandler,
                            result |-> "TransferHandlerAlreadyRegisteredError"]
            /\ UNCHANGED _transferHandler
       ELSE IF handler = "not a function"
       THEN /\ lastCall' = [op |-> "register", handler |-> handler,
                            before |-> _transferHandler,
                            result |-> "InvalidFieldsError"]
            /\ UNCHANGED _transferHandler
       ELSE /\ lastCall' = [op |-> "register", handler |-> handler,
                            before |-> _transferHandler, result |-> "ok"]
            /\ _transferHandler' = handler
    /\ UNCHANGED <<incoming, infoVars, outVars, apiVars>>

deregisterTransferHandler ==
    /\ _transferHandler' = "null"
    /\ lastCall' = [op |-> "deregister", handler |-> "", before |-> "",
                    result |-> "ok"]
    /\ UNCHANGED <<incoming, infoVars, outVars, apiVars>>

(* ------------------------- incoming transfers ------------------------- *)

\* Buffer.from(lpi1Transfer.ilp, 'base64'): the packet, whether the event
\* carries it as a buffer or as its base64 text
bufferFrom(ilp) == ilp.packet

NoCall ==
    [called |-> FALSE, count |-> 0, id |-> 0, fulfillment |-> "",
     ilp |-> [type |-> "none", data |-> <<>>]]

NoResult == [resolved |-> FALSE, fulfillment |-> "", data |-> <<>>]

\* the reason object of the rejection: the object literal {}
EmptyReason == "{}"

\* a reason that carries the error caught
rejectionReasonOfError(err) == err

\* the second argument of oldPlugin.rejectIncomingTransfer
rejectionReason(err) == EmptyReason

\* an envelope built from the payload as it is, without base64 text
fulfillmentEnvelopeRaw(data) == serializeIlpFulfillment([data |-> data])

\* the fulfillment envelope of the handler's payload
fulfillmentEnvelope(data) == serializeIlpFulfillment([data |-> toBase64(data)])

\* a fulfillCondition call that is always followed by the rejection path
afterFulfillConditionAlwaysRejected(pluginBehaviour) == "rejected"

\* where the async function stands once oldPlugin.fulfillCondition was
\* called: a synchronous throw rejects its promise, a return (also of a
\* promise that rejects later: it is not awaited) ends it
afterFulfillCondition(pluginBehaviour) ==
    IF pluginBehaviour = "throws" THEN "rejected" ELSE "fulfilled"

\* the event arrives: the envelope is decoded, the view is built and the
\* async function runs up to its first await
_handleIncomingPrepare(lpi1Transfer, handlerBehaviour) ==
    /\ Len(incoming) < MaxIncoming
    /\ LET packet == deserializeIlpPayment(bufferFrom(lpi1Transfer.ilp))
           transfer == [destination |-> packet.account,
                        data |-> fromBase64(packet.data)]
           task == [id |-> lpi1Transfer.id, transfer |-> transfer,
                    handlerAtArrival |-> _transferHandler,
                    handlerCalls |-> 0, handlerResult |-> NoResult,
                    fulfillCondition |-> NoCall,
                    rejectIncomingTransfer |-> 0, rejectReason |-> "",
                    raised |-> FALSE,
                    err |-> "InterledgerRejectionError F00", pc |-> "rejected"]
       IN IF ~hasHandler(_transferHandler)
          THEN incoming' = Append(incoming, task)
          ELSE IF handlerBehaviour = "throws"
          THEN incoming' = Append(incoming,
                   [task EXCEPT !.handlerCalls = 1, !.err = "handler threw"])
          ELSE incoming' = Append(incoming,
                   [task EXCEPT !.handlerCalls = 1, !.err = "", !.pc = "awaiting"])
    /\ UNCHANGED <<_transferHandler, lastCall, infoVars, outVars, apiVars>>

\* the handler's promise resolves with {fulfillment, data}: the envelope is
\* built and oldPlugin.fulfillCondition is called, which returns or throws
handlerResolves(t, fulfillment, data, pluginBehaviour) ==
    /\ t \in 1..Len(incoming)
    /\ incoming[t].pc = "awaiting"
    /\ LET ilp == fulfillmentEnvelope(data)
       IN incoming' = [incoming EXCEPT
              ![t].handlerResult =
                  [resolved |-> TRUE, fulfillment |-> fulfillment, data |-> data],
              ![t].fulfillCondition =
                  [called |-> TRUE, count |-> @.count + 1, id |-> incoming[t].id,
                   fulfillment |-> fulfillment, ilp |-> ilp],
              ![t].err = IF pluginBehaviour = "throws" THEN "fulfillCondition threw" ELSE "",
              ![t].pc = afterFulfillCondition(pluginBehaviour)]
    /\ UNCHANGED <<_transferHandler, lastCall, infoVars, outVars, apiVars>>

\* the handler's promise rejects, or resolves with a value that has no
\* {fulfillment, data} to take
handlerFails(t) ==
    /\ t \in 1..Len(incoming)
    /\ incoming[t].pc = "awaiting"
    /\ incoming' = [incoming EXCEPT ![t].err = "handler failed", ![t].pc = "rejected"]
    /\ UNCHANGED <<_transferHandler, lastCall, infoVars, outVars, apiVars>>

\* .catch(err => ...): oldPlugin.rejectIncomingTransfer(lpi1Transfer, {})
incomingCatch(t) ==
    /\ t \in 1..Len(incoming)
    /\ incoming[t].pc = "rejected"
    /\ incoming' = [incoming EXCEPT
           ![t].rejectIncomingTransfer = @ + 1,
           ![t].rejectReason = rejectionReason(incoming[t].err),
           ![t].pc = "done"]
    /\ UNCHANGED <<_transferHandler, lastCall, infoVars, outVars, apiVars>>

(* ------------------------ factory and events -------------------------- *)

\* the events the adapter re-emits
PASSTHROUGH_EVENTS == {"connect", "disconnect", "error", "info_change"}

\* the events the constructor subscribes a handler to
SubscribedEvents ==
    {"outgoing_fulfill", "outgoing_reject", "outgoing_cancel", "incoming_prepare"}

\* events of the wrapped plugin that no handler of the adapter is subscribed
\* to: the four passed through and two others
EmittedEvents == PASSTHROUGH_EVENTS \cup {"outgoing_prepare", "incoming_fulfill"}

\* the methods of class Plugin, which extends no other class
PluginMethods ==
    {"connect", "disconnect", "isConnected", "getInfo", "sendTransfer",
     "registerTransferHandler", "deregisterTransferHandler", "sendRequest",
     "registerRequestHandler", "deregisterRequestHandler",
     "_handleOutgoingFulfill", "_handleOutgoingReject", "_handleOutgoingCancel",
     "_handleIncomingPrepare"}

ThisEmitTypeError == "TypeError: this.emit is not a function"

\* the replacement of oldPlugin.emit: the original emit delivers the event
\* to the listeners of the wrapped plugin, then this.emit is called for the
\* events passed through
emit(eventType) ==
    /\ lastEmit' =
           IF eventType \notin PASSTHROUGH_EVENTS
           THEN [eventType |-> eventType, originalEmit |-> TRUE,
                 thisEmit |-> FALSE, threw |-> ""]
           ELSE IF "emit" \in PluginMethods
           THEN [eventType |-> eventType, originalEmit |-> TRUE,
                 thisEmit |-> TRUE, threw |-> ""]
           ELSE [eventType |-> eventType, originalEmit |-> TRUE,
                 thisEmit |-> FALSE, threw |-> ThisEmitTypeError]
    /\ UNCHANGED <<constructed, lastWrap, infoVars, outVars, inVars>>

\* what the factory may be given: the adapter it returned before, another
\* plugin of interface version 2, a plugin of the old interface, and a
\* value without a sendTransfer function
Plugins == {"adapter", "lpi2 plugin", "lpi1 plugin"}
FactoryArguments == Plugins \cup {"not a plugin"}

\* oldPlugin.constructor.lpiVersion
lpiVersion(oldPlugin) ==
    IF oldPlugin \in {"adapter", "lpi2 plugin"} THEN 2 ELSE 1

\* a factory that takes no plugin for one of the new interface
declaresLpi2Never(oldPlugin) == FALSE

declaresLpi2(oldPlugin) == lpiVersion(oldPlugin) = 2

\* the listeners the adapters have subscribed on a plugin, and the wrappers
\* they have put around its emit
listenerCount(x) == constructed[x] * Cardinality(SubscribedEvents)
emitWrappers(x) == constructed[x]

\* module.exports(oldPlugin): the two type tests, the return of a plugin
\* that is of the new interface already, else new Plugin(oldPlugin), with a
\* table, an emit wrapper and four subscriptions of its own
moduleExports(oldPlugin) ==
    /\ lastWrap.n < MaxWraps
    /\ IF oldPlugin = "not a plugin"
       THEN /\ lastWrap' = [n |-> lastWrap.n + 1, oldPlugin |-> oldPlugin,
                            result |-> "TypeError"]
            /\ UNCHANGED constructed
       ELSE IF declaresLpi2(oldPlugin)
       THEN /\ lastWrap' = [n |-> lastWrap.n + 1, oldPlugin |-> oldPlugin,
                            result |-> oldPlugin]
            /\ UNCHANGED constructed
       ELSE /\ lastWrap' = [n |-> lastWrap.n + 1, oldPlugin |-> oldPlugin,
                            result |-> "new Plugin"]
            /\ constructed' = [constructed EXCEPT ![oldPlugin] = @ + 1]
    /\ UNCHANGED <<lastEmit, infoVars, outVars, inVars>>

(* --------------------------- specifications --------------------------- *)

LedgerPrefix == <<"g", ".">>
LocalDestination == <<"g", ".", "a", ".", "a">>
RemoteDestination == <<"a", ".", "g">>
ConnectorAddress == <<"g", ".", "g">>
SecondConnector == <<"g", ".", "a">>

InitOutgoing ==
    /\ transfers = [id \in Ids |-> 0]
    /\ calls = <<>>
    /\ promise = <<>>
    /\ terminalSeen = <<>>
    /\ lastEvent = [type |-> "none", id |-> 1, handled |-> FALSE, threw |-> FALSE]
    /\ oldSendTransferCalls = <<>>
    /\ requestSendCalls = <<>>

InitIncoming ==
    /\ _transferHandler = "undefined"
    /\ lastCall = [op |-> "none", handler |-> "", before |-> "", result |-> ""]
    /\ incoming = <<>>

\* the adapter was constructed over the plugin of the old interface
InitApi ==
    /\ constructed = [x \in Plugins |-> IF x = "lpi1 plugin" THEN 1 ELSE 0]
    /\ lastWrap = [n |-> 0, oldPlugin |-> "", result |-> ""]
    /\ lastEmit = [eventType |-> "", originalEmit |-> FALSE, thisEmit |-> FALSE,
                   threw |-> ""]

(* the adapter as a whole: outgoing and incoming transfers share no state, *)
(* so the two halves are also given as specifications of their own below  *)

Requests ==
    [destination : {LocalDestination, RemoteDestination},
     data : {<<1, 2>>},
     sendTransfer : SendKinds]

\* the envelopes of incoming transfers
IncomingEnvelopes ==
    {[form |-> form,
      packet |-> serializeIlpPayment([account |-> LocalDestination,
                                      amount |-> "0",
                                      data |-> toBase64(d)])] :
        form \in {"buffer", "base64"}, d \in Payloads}

\* the k-th incoming transfer of a behaviour bears the identifier k
IncomingTransfers ==
    {[id |-> Len(incoming) + 1, ilp |-> e] : e \in IncomingEnvelopes}

Init ==
    /\ prefix = LedgerPrefix
    /\ connectors \in {<<>>, <<ConnectorAddress, SecondConnector>>}
    /\ oldPluginSend \in {"resolves", "rejects"}
    /\ InitOutgoing
    /\ InitIncoming
    /\ InitApi

SendTransferStep == \E transfer \in Requests : sendTransfer(transfer)

SendCatchStep == \E c \in 1..MaxCalls : sendCatch(c)

OutgoingFulfillStep ==
    \E id \in Ids, o \in Outcomes :
        _handleOutgoingFulfill(id, o.fulfillment,
                               [type |-> "fulfillment", data |-> o.data])

OutgoingRejectStep == \E id \in Ids, r \in Reasons : _handleOutgoingReject(id, r)

OutgoingCancelStep == \E id \in Ids, r \in Reasons : _handleOutgoingCancel(id, r)

RegisterStep == \E h \in HandlerArguments : registerTransferHandler(h)

\* the registration of the one handler whose outcomes the incoming steps choose
RegisterHandlerStep == registerTransferHandler("h1")

DeregisterStep == deregisterTransferHandler

IncomingPrepareStep ==
    \E t \in IncomingTransfers, b \in {"throws", "returns a promise"} :
        _handleIncomingPrepare(t, b)

HandlerResolvesStep ==
    \E t \in 1..MaxIncoming, o \in Outcomes, b \in {"returns", "throws"} :
        handlerResolves(t, o.fulfillment, o.data, b)

HandlerFailsStep == \E t \in 1..MaxIncoming : handlerFails(t)

IncomingCatchStep == \E t \in 1..MaxIncoming : incomingCatch(t)

NextOutgoing ==
    \/ SendTransferStep
    \/ SendCatchStep
    \/ OutgoingFulfillStep
    \/ OutgoingRejectStep
    \/ OutgoingCancelStep

NextIncoming ==
    \/ RegisterHandlerStep
    \/ DeregisterStep
    \/ IncomingPrepareStep
    \/ HandlerResolvesStep
    \/ HandlerFailsStep
    \/ IncomingCatchStep

EmitStep == \E eventType \in EmittedEvents : emit(eventType)

WrapStep == \E oldPlugin \in FactoryArguments : moduleExports(oldPlugin)

NextApi ==
    \/ RegisterStep
    \/ DeregisterStep
    \/ EmitStep
    \/ WrapStep

Next == NextOutgoing \/ NextIncoming \/ NextApi

Spec == Init /\ [][Next]_vars

(* the correlation of outgoing transfers: a plugin without connectors, so  *)
(* that a call for a remote destination fails and leaves its identifier    *)
(* without an entry                                                        *)

InitOut ==
    /\ prefix = LedgerPrefix
    /\ connectors = <<>>
    /\ oldPluginSend = "resolves"
    /\ InitOutgoing
    /\ InitIncoming
    /\ InitApi

SpecOut == InitOut /\ [][NextOutgoing]_vars

(* the handling of incoming transfers *)

InitIn ==
    /\ prefix = LedgerPrefix
    /\ connectors = <<>>
    /\ oldPluginSend = "resolves"
    /\ InitOutgoing
    /\ InitIncoming
    /\ InitApi

SpecIn == InitIn /\ [][NextIncoming]_vars

(* the factory, the events passed through and the registration of handlers *)

SpecApi == InitIn /\ [][NextApi]_vars

(* the initiation of one send, over every prefix, connector list and       *)
(* destination within the bounds                                           *)

SendRequests ==
    [destination : StringsUpTo(MaxAddrLen),
     data : {<<1, 2>>},
     sendTransfer : SendKinds]

InitSend ==
    /\ prefix \in StringsUpTo(MaxPrefixLen)
    /\ connectors \in {<<>>, <<ConnectorAddress, SecondConnector>>, << <<>> >>}
    /\ oldPluginSend \in {"resolves", "rejects"}
    /\ InitOutgoing
    /\ InitIncoming
    /\ InitApi

FirstSendStep ==
    /\ calls = <<>>
    /\ \E transfer \in SendRequests : sendTransfer(transfer)

NextSend == FirstSendStep \/ SendCatchStep

SpecSend == InitSend /\ [][NextSend]_vars

(* the round trip of the routing envelope: one plain request is sent over  *)
(* a plugin with connectors, so that every destination has a delivery      *)
(* address, and the envelope built for it comes back in an                 *)
(* incoming_prepare event, as the buffer it is or as its base64 text       *)

TripRequests ==
    [destination : StringsUpTo(MaxAddrLen),
     data : BuffersUpTo(MaxPayloadLen),
     sendTransfer : {"absent"}]

InitTrip ==
    /\ prefix = LedgerPrefix
    /\ connectors = <<ConnectorAddress, SecondConnector>>
    /\ oldPluginSend = "resolves"
    /\ InitOutgoing
    /\ InitIncoming
    /\ InitApi

TripSendStep ==
    /\ calls = <<>>
    /\ \E transfer \in TripRequests : sendTransfer(transfer)

TripDeliverStep ==
    /\ incoming = <<>>
    /\ \E c \in 1..Len(calls), form \in {"buffer", "base64"} :
           /\ calls[c].ilp # NoEnvelope
           /\ _handleIncomingPrepare(
                  [id |-> calls[c].id,
                   ilp |-> [form |-> form, packet |-> calls[c].ilp]],
                  "resolves")

NextTrip == TripSendStep \/ TripDeliverStep

SpecTrip == InitTrip /\ [][NextTrip]_vars

(* ------------------------------- claims ------------------------------- *)

Registered(c) == transfers[calls[c].id] = c

\* the destination lies under the ledger prefix
IsUnderPrefix(pfx, d) ==
    /\ Len(pfx) <= Len(d)
    /\ \A i \in 1..Len(pfx) : d[i] = pfx[i]

\* C1: the promise of a registered call resolves if and only if an
\* outgoing_fulfill event with its identifier is delivered: such an event,
\* delivered as the first terminal event of the identifier, leaves the
\* promise resolved with the event's fulfillment and the payload of its
\* envelope, and a promise becomes resolved by no other step.
C1_ResolvesIffFulfilled ==
    [][ /\ \A id \in Ids, f \in Fulfillments, ilp \in FulfillEnvelopes :
              ( /\ transfers[id] # 0
                /\ ~terminalSeen[transfers[id]]
                /\ _handleOutgoingFulfill(id, f, ilp) )
              => promise'[transfers[id]] = Resolved(f, ilp.data)
        /\ \A c \in 1..Len(promise) :
              (promise[c].state # "resolved" /\ promise'[c].state = "resolved")
              => \E f \in Fulfillments, ilp \in FulfillEnvelopes :
                     /\ _handleOutgoingFulfill(calls[c].id, f, ilp)
                     /\ promise'[c] = Resolved(f, ilp.data)
      ]_vars

\* C2: every call that resolved a delivery address has its entry in the
\* correlation table and the wrapped plugin's sendTransfer was called
\* exactly once with the record bearing the call's identifier.
C2_RegistersThenCallsPlugin ==
    \A c \in 1..Len(calls) :
        ~(calls[c].to = Undefined \/ calls[c].to = <<>>)
        => /\ transfers[calls[c].id] = c
           /\ Cardinality({k \in 1..Len(oldSendTransferCalls) :
                              oldSendTransferCalls[k].id = calls[c].id}) = 1

\* C3: an outgoing_reject or outgoing_cancel event, delivered as the first
\* terminal event of the identifier of a registered call, leaves the call's
\* promise rejected with exactly the reason of the event.
C3_RejectsWithReason ==
    [][ \A id \in Ids, r \in Reasons :
            ( /\ transfers[id] # 0
              /\ ~terminalSeen[transfers[id]]
              /\ (_handleOutgoingReject(id, r) \/ _handleOutgoingCancel(id, r)) )
            => promise'[transfers[id]] = Rejected(r)
      ]_vars

\* C4: a promise that is settled is never changed again, whatever events
\* follow: it settles at most once and keeps its outcome.
C4_SettlesAtMostOnce ==
    [][ \A c \in 1..Len(promise) :
            promise[c].state # "pending" => promise'[c] = promise[c]
      ]_vars

\* a promise resolved by a fulfillment, after which a cancellation with the
\* same identifier was delivered to the handler and found the entry
C4_Witness ==
    \E c \in 1..Len(calls) :
        /\ promise[c].state = "resolved"
        /\ lastEvent.type = "outgoing_cancel"
        /\ lastEvent.id = calls[c].id
        /\ lastEvent.handled

\* C5: the delivery of a terminal event whose identifier has no entry in the
\* table throws nothing and changes neither the table nor any promise nor
\* any call.
C5_UnknownIdNoEffect ==
    [][ (lastEvent' # lastEvent /\ transfers[lastEvent'.id] = 0)
        => /\ ~lastEvent'.threw
           /\ transfers' = transfers
           /\ promise' = promise
           /\ calls' = calls
           /\ terminalSeen' = terminalSeen
      ]_vars

\* an event for an identifier without entry was dropped while another call
\* was registered and pending
C5_Witness ==
    /\ lastEvent.type # "none"
    /\ ~lastEvent.handled
    /\ transfers[lastEvent.id] = 0
    /\ \E c \in 1..Len(calls) : Registered(c) /\ promise[c].state = "pending"

\* C6: as long as no terminal event with the identifier of a registered
\* call has been delivered, the call's promise is pending.
C6_PendingUntilTerminalEvent ==
    \A c \in 1..Len(calls) :
        (Registered(c) /\ ~terminalSeen[c]) => promise[c].state = "pending"

\* C7: when the wrapped plugin's sendTransfer rejects, the promise of every
\* call that resolved a delivery address is rejected with that error as soon
\* as the send call has been answered.
C7_PluginSendErrorRejects ==
    \A c \in 1..Len(calls) :
        ( /\ oldPluginSend = "rejects"
          /\ ~(calls[c].to = Undefined \/ calls[c].to = <<>>)
          /\ calls[c].send # "rejecting" )
        => promise[c] = Rejected(PluginSendError)

\* C8: a call whose destination is not under the ledger prefix, made on a
\* plugin without connectors, fails with the no-valid-destination error,
\* adds no entry to the table and hands no record to any send operation.
C8_NoValidDestination ==
    \A c \in 1..Len(calls) :
        (~IsUnderPrefix(prefix, calls[c].destination) /\ connectors = <<>>)
        => /\ promise[c] = Rejected(NoValidDestinationError)
           /\ transfers[calls[c].id] = 0
           /\ \A k \in 1..Len(oldSendTransferCalls) :
                  oldSendTransferCalls[k].id # calls[c].id
           /\ \A k \in 1..Len(requestSendCalls) :
                  requestSendCalls[k].id # calls[c].id

\* a call for a destination outside the prefix, on a plugin without
\* connectors, has been made
C8_Witness ==
    \E c \in 1..Len(calls) :
        /\ ~IsUnderPrefix(prefix, calls[c].destination)
        /\ connectors = <<>>
        /\ Len(calls[c].destination) > 0

\* seg is the first dot-separated segment of rest
IsFirstSegment(seg, rest) ==
    /\ Len(seg) <= Len(rest)
    /\ \A i \in 1..Len(seg) : seg[i] = rest[i] /\ seg[i] # "."
    /\ (Len(seg) = Len(rest) \/ rest[Len(seg) + 1] = ".")

\* C9: the address `to` of every call is the prefix followed by the first
\* dot-separated segment of what follows the prefix in the destination,
\* when the destination is under the prefix, and the first connector of the
\* plugin (undefined when it has none) otherwise.
C9_DeliveryAddress ==
    \A c \in 1..Len(calls) :
        LET d == calls[c].destination
            to == calls[c].to
        IN IF IsUnderPrefix(prefix, d)
           THEN /\ Len(to) >= Len(prefix)
                /\ SubSeq(to, 1, Len(prefix)) = prefix
                /\ IsFirstSegment(SubSeq(to, Len(prefix) + 1, Len(to)),
                                  SubSeq(d, Len(prefix) + 1, Len(d)))
           ELSE to = (IF connectors # <<>> THEN connectors[1] ELSE Undefined)

\* a destination under a non-empty prefix with more after its first segment
C9_Witness ==
    \E c \in 1..Len(calls) :
        /\ prefix # <<>>
        /\ IsUnderPrefix(prefix, calls[c].destination)
        /\ Len(calls[c].to) > Len(prefix)
        /\ Len(calls[c].destination) > Len(calls[c].to) + 1

\* C10: an incoming transfer that arrived while no handler was registered
\* is never handed to a handler and never fulfilled; its only continuation
\* is the rejection, which calls rejectIncomingTransfer once.
C10_NoHandlerRejects ==
    \A t \in 1..Len(incoming) :
        incoming[t].handlerAtArrival \in {"undefined", "null"}
        => /\ incoming[t].handlerCalls = 0
           /\ ~incoming[t].fulfillCondition.called
           /\ incoming[t].pc \in {"rejected", "done"}
           /\ incoming[t].rejectIncomingTransfer
                  = (IF incoming[t].pc = "done" THEN 1 ELSE 0)

\* a transfer that arrived after the handler was deregistered has been
\* rejected, and a handler registered since then was not called for it
C10_Witness ==
    \E t \in 1..Len(incoming) :
        /\ incoming[t].handlerAtArrival = "null"
        /\ incoming[t].pc = "done"
        /\ incoming[t].rejectIncomingTransfer = 1
        /\ _transferHandler = "h1"


\* the failures of the handling of an incoming transfer that come before
\* any call of the wrapped plugin: no handler, a handler that throws, a
\* handler whose promise rejects
HandlingFailures ==
    {"InterledgerRejectionError F00", "handler threw", "handler failed"}

\* C11: when the handler of an incoming transfer resolves with a fulfillment
\* and a payload, oldPlugin.fulfillCondition is called with the identifier
\* of that transfer, the fulfillment of the handler and an envelope that
\* decodes to the payload of the handler.
C11_FulfillConditionCall ==
    \A t \in 1..Len(incoming) :
        incoming[t].handlerResult.resolved =>
            /\ incoming[t].fulfillCondition.called
            /\ incoming[t].fulfillCondition.id = incoming[t].id
            /\ incoming[t].fulfillCondition.fulfillment =
                   incoming[t].handlerResult.fulfillment
            /\ fromBase64(deserializeIlpFulfillment(
                              incoming[t].fulfillCondition.ilp).data) =
                   incoming[t].handlerResult.data

C11_Witness ==
    \E t \in 1..Len(incoming) :
        /\ t = 2
        /\ incoming[t].handlerResult.resolved
        /\ incoming[t].handlerResult.data = <<1, 2>>
        /\ incoming[t].fulfillCondition.called
        /\ incoming[t].fulfillCondition.id = 2

\* C12: when the handling of an incoming transfer fails (no handler, a
\* handler that throws, a handler whose promise rejects), the failure goes
\* to the catch of the async function and nowhere else: nothing is raised to
\* the emitter of the event, fulfillCondition is not called, and the catch
\* calls oldPlugin.rejectIncomingTransfer once with the empty reason.
C12_FailureRejectsWithEmptyReason ==
    \A t \in 1..Len(incoming) :
        incoming[t].err \in HandlingFailures =>
            /\ ~incoming[t].raised
            /\ incoming[t].pc \in {"rejected", "done"}
            /\ ~incoming[t].fulfillCondition.called
            /\ incoming[t].pc = "rejected" => incoming[t].rejectIncomingTransfer = 0
            /\ incoming[t].pc = "done" =>
                   /\ incoming[t].rejectIncomingTransfer = 1
                   /\ incoming[t].rejectReason = EmptyReason

C12_Witness ==
    /\ \E t \in 1..Len(incoming) :
           /\ incoming[t].err = "handler failed"
           /\ incoming[t].pc = "done"
           /\ incoming[t].rejectReason = EmptyReason
    /\ \E t \in 1..Len(incoming) :
           /\ incoming[t].err = "handler threw"
           /\ incoming[t].pc = "done"
           /\ incoming[t].rejectIncomingTransfer = 1


\* C13: at most one transfer handler is registered at any time: a call of
\* registerTransferHandler made while a handler is registered fails with
\* TransferHandlerAlreadyRegisteredError and leaves that handler in place,
\* and a call with a function made while none is registered (at the start
\* or after deregisterTransferHandler) succeeds and registers it.
C13_AtMostOneHandler ==
    lastCall.op = "register" =>
        IF lastCall.before \in Handlers
        THEN /\ lastCall.result = "TransferHandlerAlreadyRegisteredError"
             /\ _transferHandler = lastCall.before
        ELSE lastCall.handler \in Handlers =>
                 /\ lastCall.result = "ok"
                 /\ _transferHandler = lastCall.handler

C13_Witness ==
    /\ lastCall.op = "register"
    /\ lastCall.before = "null"
    /\ lastCall.handler = "h2"
    /\ lastCall.result = "ok"
    /\ _transferHandler = "h2"

\* C15: every event emitted through oldPlugin.emit is delivered to the
\* listeners of the wrapped plugin, and is delivered again to the listeners
\* of the adapter exactly when it is one of connect, disconnect, error and
\* info_change.
C15_EventsPassedThrough ==
    lastEmit.eventType # "" =>
        /\ lastEmit.originalEmit
        /\ lastEmit.thisEmit <=> lastEmit.eventType \in PASSTHROUGH_EVENTS

\* C16: the factory given a plugin that declares interface version 2 (the
\* adapter it returned before, or another such plugin) returns that very
\* plugin: no adapter is constructed, so no handler is subscribed, no emit
\* is wrapped and no table is made.
C16_WrappingIdempotent ==
    [][(lastWrap' # lastWrap /\ lpiVersion(lastWrap'.oldPlugin) = 2) =>
           /\ lastWrap'.result = lastWrap'.oldPlugin
           /\ constructed' = constructed
           /\ \A x \in Plugins :
                  /\ listenerCount(x)' = listenerCount(x)
                  /\ emitWrappers(x)' = emitWrappers(x)
           /\ transfers' = transfers]_vars

C16_Witness ==
    /\ lastWrap.n = 2
    /\ lastWrap.oldPlugin = "adapter"
    /\ lastWrap.result = "adapter"
    /\ constructed = [x \in Plugins |-> IF x = "lpi1 plugin" THEN 1 ELSE 0]


\* C14 as stated: every identifier with an entry in the table belongs to
\* exactly one sendTransfer call, and the promise of that call is not yet
\* settled.
C14_EntriesAreOutstanding ==
    \A id \in Ids :
        transfers[id] # 0 =>
            /\ transfers[id] \in 1..Len(calls)
            /\ calls[transfers[id]].id = id
            /\ Cardinality({c \in 1..Len(calls) : calls[c].id = id}) = 1
            /\ promise[transfers[id]].state = "pending"

\* C14, amended: every identifier with an entry in the table belongs to
\* exactly one sendTransfer call, whose resolve and reject the entry holds;
\* the promise of that call may be pending or settled, since no entry is
\* ever removed. No identifier is given to a second call.
C14_EntriesOfCalls ==
    /\ \A id \in Ids :
           transfers[id] # 0 =>
               /\ transfers[id] \in 1..Len(calls)
               /\ calls[transfers[id]].id = id
               /\ Cardinality({c \in 1..Len(calls) : calls[c].id = id}) = 1
    /\ \A c \in 1..Len(calls) :
           calls[c].send # "none" => transfers[calls[c].id] = c

C14_Witness ==
    \E c1, c2 \in 1..Len(calls) :
        /\ c1 # c2
        /\ Registered(c1)
        /\ Registered(c2)
        /\ promise[c1].state = "resolved"
        /\ terminalSeen[c1]
        /\ promise[c2].state = "pending"

\* C19: a terminal event settles at most the promise of the call whose
\* identifier it bears, and does settle it when that call is outstanding;
\* the promise of every other call and every entry of the table stay as
\* they were.
C19_EventsAreIsolated ==
    [][((lastEvent' # lastEvent \/ terminalSeen' # terminalSeen) /\ calls' = calls) =>
           /\ transfers' = transfers
           /\ \A c \in 1..Len(calls) :
                  calls[c].id # lastEvent'.id => promise'[c] = promise[c]
           /\ \A c \in 1..Len(calls) :
                  ( /\ calls[c].id = lastEvent'.id
                    /\ transfers[calls[c].id] = c
                    /\ promise[c].state = "pending" )
                  => promise'[c].state # "pending"]_vars

C19_Witness ==
    \E c1, c2 \in 1..Len(calls) :
        /\ c1 # c2
        /\ transfers[calls[c1].id] = c1
        /\ transfers[calls[c2].id] = c2
        /\ promise[c1].state = "pending"
        /\ promise[c2].state = "rejected"
        /\ promise[c2].reason \in Reasons
        /\ lastEvent.id = calls[c2].id
        /\ lastEvent.handled


\* C18 as stated: a sendTransfer call that finds no valid destination throws
\* the error from the call itself and returns no promise.
C18_ThrownSynchronously ==
    \A c \in 1..Len(calls) :
        calls[c].send = "none" =>
            /\ calls[c].thrown = NoValidDestinationError
            /\ promise[c] = NoPromise

\* C18, amended: no sendTransfer call throws; a call that finds no valid
\* destination returns a promise that is rejected with the error from the
\* start, and has made no entry and no send call.
C18_RejectedNotThrown ==
    \A c \in 1..Len(calls) :
        /\ calls[c].thrown = ""
        /\ promise[c] # NoPromise
        /\ calls[c].send = "none" =>
               /\ promise[c] = Rejected(NoValidDestinationError)
               /\ transfers[calls[c].id] = 0
               /\ requestSendCalls = <<>>
               /\ oldSendTransferCalls = <<>>

C18_Witness ==
    \E c \in 1..Len(calls) :
        /\ calls[c].send = "none"
        /\ calls[c].destination = <<"a", ".", "g">>
        /\ calls[c].thrown = ""
        /\ promise[c] = Rejected(NoValidDestinationError)


\* C17: when the envelope that sendTransfer built for a destination and a
\* payload is delivered in an incoming_prepare event, the transfer handed to
\* the handler has that destination and that payload.
C17_EnvelopeRoundTrip ==
    \A t \in 1..Len(incoming) :
        \A c \in 1..Len(calls) :
            calls[c].id = incoming[t].id =>
                /\ incoming[t].transfer.destination = calls[c].destination
                /\ incoming[t].transfer.data = calls[c].data

C17_Witness ==
    \E t \in 1..Len(incoming) :
        \E c \in 1..Len(calls) :
            /\ calls[c].id = incoming[t].id
            /\ calls[c].destination = <<"g", ".", "a">>
            /\ calls[c].data = <<255, 18>>
            /\ incoming[t].transfer.data = <<255, 18>>
            /\ incoming[t].transfer.destination = <<"g", ".", "a">>

\* C20 as stated: for no incoming transfer are both fulfillCondition and
\* rejectIncomingTransfer called, and neither is called more than once.
C20_NeverBothCalls ==
    \A t \in 1..Len(incoming) :
        /\ incoming[t].fulfillCondition.count <= 1
        /\ incoming[t].rejectIncomingTransfer <= 1
        /\ ~(/\ incoming[t].fulfillCondition.count >= 1
             /\ incoming[t].rejectIncomingTransfer >= 1)

\* C20, amended: for every incoming transfer each of fulfillCondition and
\* rejectIncomingTransfer is called at most once, and both are called only
\* when the fulfillCondition call itself threw: the throw is caught like
\* every other failure and the transfer is rejected. A fulfillCondition call
\* that returned is followed by no rejectIncomingTransfer.
C20_BothOnlyWhenFulfillThrows ==
    \A t \in 1..Len(incoming) :
        /\ incoming[t].fulfillCondition.count <= 1
        /\ incoming[t].rejectIncomingTransfer <= 1
        /\ ( /\ incoming[t].fulfillCondition.count >= 1
             /\ incoming[t].pc \in {"rejected", "done"} )
           => incoming[t].err = "fulfillCondition threw"
        /\ incoming[t].pc = "fulfilled" =>
               /\ incoming[t].fulfillCondition.count = 1
               /\ incoming[t].rejectIncomingTransfer = 0

C20_Witness ==
    /\ \E t \in 1..Len(incoming) :
           /\ incoming[t].fulfillCondition.count = 1
           /\ incoming[t].rejectIncomingTransfer = 1
           /\ incoming[t].err = "fulfillCondition threw"
    /\ \E t \in 1..Len(incoming) :
           /\ incoming[t].pc = "fulfilled"
           /\ incoming[t].rejectIncomingTransfer = 0

====
